---- MODULE Spec2Model ----
(***************************************************************************)
(* Model of connection.go: an ISO 8583 connection that multiplexes         *)
(* concurrent Send/Reply calls over one transport.  Goroutines are         *)
(* processes with a program counter; unbuffered channels are rendezvous    *)
(* (one action moves sender and receiver together); timers (time.After)    *)
(* may fire at any step at which the goroutine waits on them.              *)
(***************************************************************************)
EXTENDS Integers, Sequences, FiniteSets, TLC

\* ------------------------------------------------------------------ bounds
NumCallers == 2
NumClosers == 2
MaxStan == 2
MaxPush == 2
MaxConnect == 2
NumInboundCallers == 1

Callers == 1..NumCallers
\* the calls of run(): the one of NewFrom and one for each Connect
Runs == 1..(MaxConnect + 1)
Closers == 1..NumClosers
\* field 11 values a caller may put in its message; 0 is the empty string
Stans == 0..MaxStan

\* goroutines that may run the teardown: the Close calls, and the two loops
\* that call handleConnectionError
Writer == <<"writeLoop", 0>>
Reader == <<"readLoop", 0>>
Loops == {Writer, Reader}
CloseCalls == {<<"Close", k>> : k \in Closers}
TProcs == Loops \cup CloseCalls
Free == <<"free", 0>>
Nobody == <<"nobody", 0>>
NoReq == 0

\* ------------------------------------------------------------------ codec
\* the MTI of the peer's responses ("0810")
RespMTI == <<0, 8, 1, 0>>

\* the peer's answer to the request of Send call c (origin names the request
\* it answers; the program never reads origin)
ResponseTo(c, stan) == [mti |-> RespMTI, stan |-> stan, origin |-> c, ok |-> TRUE]

NoMsg == [mti |-> <<>>, stan |-> 0, origin |-> 0, ok |-> FALSE]

\* a call of InboundMessageHandler: the message, the call site ("salvage" is
\* line 367, "unmatched" 606, "inbound" 612) and, for the salvage goroutine,
\* the Send call whose replyCh the message came from
Handled(m, site, c) == [msg |-> m, at |-> site, slot |-> c]

\* a call of handleError; raw is the frame an ErrUnpack carries (47-50)
Err(e) == [err |-> e, raw |-> NoMsg]

\* an ErrUnpack built without the frame
ErrUnpack_noRaw(m) == [err |-> "unpack", raw |-> NoMsg]

\* connection.go:583-586
ErrUnpack(m) == [err |-> "unpack", raw |-> m]

\* a frame whose payload Unpack rejects (connection.go:581-582)
BadFrame == [mti |-> <<9>>, stan |-> 0, origin |-> 0, ok |-> FALSE]
\* a request of the peer ("0800") and a message with an MTI of three characters
PeerRequest == [mti |-> <<0, 8, 0, 0>>, stan |-> 1, origin |-> 0, ok |-> TRUE]
ShortMTI == [mti |-> <<0, 8, 1>>, stan |-> 1, origin |-> 0, ok |-> TRUE]
\* the frames the peer sends of its own accord
Frames == {BadFrame, PeerRequest, ShortMTI}

\* connection.go:455
messageFunctionIndex == 2

\* isResponse taking every message for a response
isResponse_anyMTI(message) == TRUE

\* connection.go:464-486
isResponse(message) ==
    IF Len(message.mti) < 4
    THEN FALSE
    ELSE message.mti[messageFunctionIndex + 1] \in {1, 3, 5, 7}

\* connection.go:435-450, "" is 0: the error case returns no id
requestIDFails(message) == message.stan = 0

requestID(message) == message.stan

\* ------------------------------------------------------------------ state
VARIABLES
    closing,        \* c.closing
    doneCloses,     \* number of close(c.done) executed
    connCloses,     \* number of c.conn.Close() executed
    wg,             \* c.wg counter
    respMap,        \* c.respMap: request id -> the Send call owning the slot
    mu,             \* holder of c.pendingRequestsMu
    inboundHandler, \* c.Opts.InboundMessageHandler != nil
    cpc, ckind, cstan, cres, cgot,   \* Send/Reply calls
    salvage,        \* the goroutine a timed-out Send starts (connection.go:364)
    handled,        \* calls of InboundMessageHandler
    reported,       \* calls of handleError
    wpc, wreq,      \* writeLoop
    rpc, rmsg,      \* readLoop
    dpc,            \* readResponseLoop
    hr,             \* running handleResponse goroutines
    wire,           \* calls whose frame was written to the transport
    inbox,          \* frames the peer has written and the reader not yet read
    answered,       \* requests the peer has answered, in the order of its answers
    pushed,         \* number of frames the peer has sent of its own accord
    tpc,            \* position of each goroutine in Close / handleConnectionError / close
    todo,           \* handleConnectionError: slots of the range loop not yet visited
    drpc, drreq,    \* handleConnectionError's draining goroutine (224-234)
    wtpc,           \* handleConnectionError's waiting goroutine (236-239)
    lateStart,      \* history: the call was entered with closing already set
    afterNoise,     \* history: the call was entered after an unpack error was reported
    pendAtClosing,  \* history: Sends with a slot in respMap when closing was set
    pendAtFan,      \* history: Sends with a slot in respMap when line 217 took the lock
    registered,     \* history: Sends whose slot writeLoop has put into respMap
    closedBy,       \* history: the goroutine that set closing
    conn,           \* c.conn != nil
    connects,       \* number of Connect calls made
    runs,           \* number of run() calls made
    lw, lr, ld,     \* each run's writeLoop, readLoop and readResponseLoop
    lmade, lq, lwait,   \* Send and Reply calls made, blocked on requestsCh, awaiting their outcome
    lclose,         \* position of the one execution of close()
    ldrain          \* handleConnectionError's draining goroutine runs

lifeVars == <<conn, connects, runs, lw, lr, ld, lmade, lq, lwait, lclose, ldrain>>
connVars == <<closing, doneCloses, connCloses, wg, respMap, mu, inboundHandler, lifeVars>>
callVars == <<cpc, ckind, cstan, cres, cgot, salvage>>
outVars == <<handled, reported>>
writerVars == <<wpc, wreq>>
readerVars == <<rpc, rmsg, dpc, hr>>
netVars == <<wire, inbox, answered, pushed>>
tearVars == <<tpc, todo, drpc, drreq, wtpc>>
histVars == <<lateStart, afterNoise, pendAtClosing, pendAtFan, registered, closedBy>>

vars == <<connVars, callVars, outVars, writerVars, readerVars, netVars, tearVars, histVars>>

\* connection.go:106-116: the Connection New returns, and the Send, Reply and
\* Close calls and the goroutines not yet started
Fields ==
    /\ closing = FALSE
    /\ doneCloses = 0
    /\ connCloses = 0
    /\ wg = 0
    /\ respMap = <<>>
    /\ mu = Free
    /\ inboundHandler \in BOOLEAN
    /\ cpc = [c \in Callers |-> "idle"]
    /\ ckind = [c \in Callers |-> "none"]
    /\ cstan = [c \in Callers |-> 0]
    /\ cres = [c \in Callers |-> "none"]
    /\ cgot = [c \in Callers |-> NoMsg]
    /\ salvage = [c \in Callers |-> "none"]
    /\ handled = {}
    /\ reported = {}
    /\ wpc = "select"
    /\ wreq = NoReq
    /\ rpc = "read"
    /\ rmsg = NoMsg
    /\ dpc = "select"
    /\ hr = {}
    /\ wire = {}
    /\ inbox = <<>>
    /\ answered = <<>>
    /\ pushed = 0
    /\ tpc = [p \in TProcs |-> "idle"]
    /\ todo = [p \in Loops |-> {}]
    /\ drpc = [p \in Loops |-> "none"]
    /\ drreq = [p \in Loops |-> NoReq]
    /\ wtpc = [p \in Loops |-> "none"]
    /\ lateStart = [c \in Callers |-> FALSE]
    /\ afterNoise = [c \in Callers |-> FALSE]
    /\ pendAtClosing = {}
    /\ pendAtFan = {}
    /\ registered = {}
    /\ closedBy = Nobody
    /\ connects = 0
    /\ lmade = 0
    /\ lq = 0
    /\ lwait = 0
    /\ lclose = "idle"
    /\ ldrain = FALSE

\* connection.go:98-117: no transport, no loop
New ==
    /\ Fields
    /\ conn = FALSE
    /\ runs = 0
    /\ lw = [i \in Runs |-> "none"]
    /\ lr = [i \in Runs |-> "none"]
    /\ ld = [i \in Runs |-> "none"]

\* connection.go:122-130: c.conn = conn; c.run()
NewFrom ==
    /\ Fields
    /\ conn = TRUE
    /\ runs = 1
    /\ lw = [i \in Runs |-> IF i = 1 THEN "select" ELSE "none"]
    /\ lr = [i \in Runs |-> IF i = 1 THEN "read" ELSE "none"]
    /\ ld = [i \in Runs |-> IF i = 1 THEN "select" ELSE "none"]

Init == NewFrom

\* handleError was called with an ErrUnpack (connection.go:583-587)
UnpackReported == \E e \in reported : e.err = "unpack"

doneClosed == doneCloses > 0
connClosed == connCloses > 0

\* the Send calls whose slot is in respMap
Slots == {respMap[k] : k \in DOMAIN respMap}

\* respMap[k] = v
MapSet(m, k, v) == [x \in DOMAIN m \cup {k} |-> IF x = k THEN v ELSE m[x]]
\* delete(respMap, k)
MapDelete(m, k) == [x \in DOMAIN m \ {k} |-> m[x]]

\* ------------------------------------------------------------ Send / Reply
\* calls are numbered in the order in which they are entered
Started(c) == c \in Callers => cpc[c] # "idle"

\* field 11 values are numbered in the order of their first use (0, the empty
\* string, apart)
FreshOrUsed(s) == \A t \in 1..(s - 1) : \E c \in Callers : ckind[c] = "Send" /\ cstan[c] = t

\* connection.go:311-312: c.wg.Add(1), defer c.wg.Done()
SendEnter(c, s) ==
    /\ cpc[c] = "idle"
    /\ Started(c - 1)
    /\ FreshOrUsed(s)
    /\ wg' = wg + 1
    /\ cpc' = [cpc EXCEPT ![c] = "check"]
    /\ ckind' = [ckind EXCEPT ![c] = "Send"]
    /\ cstan' = [cstan EXCEPT ![c] = s]
    /\ lateStart' = [lateStart EXCEPT ![c] = closing]
    /\ afterNoise' = [afterNoise EXCEPT ![c] = UnpackReported]
    /\ UNCHANGED <<closing, doneCloses, connCloses, respMap, mu, inboundHandler, lifeVars>>
    /\ UNCHANGED <<cres, cgot, salvage, pendAtClosing, pendAtFan, registered, closedBy>>
    /\ UNCHANGED <<outVars, writerVars, readerVars, netVars, tearVars>>

\* connection.go:388-389
ReplyEnter(c) ==
    /\ cpc[c] = "idle"
    /\ Started(c - 1)
    /\ wg' = wg + 1
    /\ cpc' = [cpc EXCEPT ![c] = "check"]
    /\ ckind' = [ckind EXCEPT ![c] = "Reply"]
    /\ lateStart' = [lateStart EXCEPT ![c] = closing]
    /\ afterNoise' = [afterNoise EXCEPT ![c] = UnpackReported]
    /\ UNCHANGED <<closing, doneCloses, connCloses, respMap, mu, inboundHandler, lifeVars>>
    /\ UNCHANGED <<cstan, cres, cgot, salvage, pendAtClosing, pendAtFan, registered, closedBy>>
    /\ UNCHANGED <<outVars, writerVars, readerVars, netVars, tearVars>>

\* a call returns: its result, and the deferred c.wg.Done()
Return(c, result) ==
    /\ cres' = [cres EXCEPT ![c] = result]
    /\ cpc' = [cpc EXCEPT ![c] = "done"]
    /\ wg' = wg - 1

\* SendCheck without the closing check of lines 315-318
SendCheck_noClosingCheck(c) ==
    /\ cpc[c] = "check"
    /\ ckind[c] = "Send"
    /\ IF requestIDFails([stan |-> cstan[c]])
       THEN Return(c, "ErrRequestID")
       ELSE /\ cpc' = [cpc EXCEPT ![c] = "enqueue"]
            /\ UNCHANGED <<cres, wg>>
    /\ UNCHANGED <<closing, doneCloses, connCloses, respMap, mu, inboundHandler, lifeVars>>
    /\ UNCHANGED <<ckind, cstan, cgot, salvage>>
    /\ UNCHANGED <<outVars, writerVars, readerVars, netVars, tearVars, histVars>>

\* connection.go:314-349: the closing check, then packing and requestID;
\* a message without field 11 fails before anything is enqueued
SendCheck(c) ==
    /\ cpc[c] = "check"
    /\ ckind[c] = "Send"
    /\ IF closing
       THEN Return(c, "ErrConnectionClosed")
       ELSE IF requestIDFails([stan |-> cstan[c]])
            THEN Return(c, "ErrRequestID")
            ELSE /\ cpc' = [cpc EXCEPT ![c] = "enqueue"]
                 /\ UNCHANGED <<cres, wg>>
    /\ UNCHANGED <<closing, doneCloses, connCloses, respMap, mu, inboundHandler, lifeVars>>
    /\ UNCHANGED <<ckind, cstan, cgot, salvage>>
    /\ UNCHANGED <<outVars, writerVars, readerVars, netVars, tearVars, histVars>>

\* ReplyCheck without the closing check of lines 392-395
ReplyCheck_noClosingCheck(c) ==
    /\ cpc[c] = "check"
    /\ ckind[c] = "Reply"
    /\ cpc' = [cpc EXCEPT ![c] = "enqueue"]
    /\ UNCHANGED <<cres, wg>>
    /\ UNCHANGED <<closing, doneCloses, connCloses, respMap, mu, inboundHandler, lifeVars>>
    /\ UNCHANGED <<ckind, cstan, cgot, salvage>>
    /\ UNCHANGED <<outVars, writerVars, readerVars, netVars, tearVars, histVars>>

\* connection.go:391-419
ReplyCheck(c) ==
    /\ cpc[c] = "check"
    /\ ckind[c] = "Reply"
    /\ IF closing
       THEN Return(c, "ErrConnectionClosed")
       ELSE /\ cpc' = [cpc EXCEPT ![c] = "enqueue"]
            /\ UNCHANGED <<cres, wg>>
    /\ UNCHANGED <<closing, doneCloses, connCloses, respMap, mu, inboundHandler, lifeVars>>
    /\ UNCHANGED <<ckind, cstan, cgot, salvage>>
    /\ UNCHANGED <<outVars, writerVars, readerVars, netVars, tearVars, histVars>>

\* what a receive from a call's errCh does to the call (connection.go:357
\* for Send, which goes on to line 377; 424 for Reply, which returns)
TakeErr(c, e) ==
    IF ckind[c] = "Send"
    THEN /\ cres' = [cres EXCEPT ![c] = e]
         /\ cpc' = [cpc EXCEPT ![c] = "lock"]
         /\ UNCHANGED wg
    ELSE Return(c, e)

\* Send's timeout starting the salvage goroutine whether or not an
\* InboundMessageHandler is set
SendTimeout_alwaysSalvage(c) ==
    /\ cpc[c] = "wait"
    /\ ckind[c] = "Send"
    /\ cres' = [cres EXCEPT ![c] = "ErrSendTimeout"]
    /\ cpc' = [cpc EXCEPT ![c] = "lock"]
    /\ salvage' = [salvage EXCEPT ![c] = "waiting"]
    /\ UNCHANGED <<connVars, ckind, cstan, cgot>>
    /\ UNCHANGED <<outVars, writerVars, readerVars, netVars, tearVars, histVars>>

\* connection.go:358-375: the timer of Send's select fires
SendTimeout(c) ==
    /\ cpc[c] = "wait"
    /\ ckind[c] = "Send"
    /\ cres' = [cres EXCEPT ![c] = "ErrSendTimeout"]
    /\ cpc' = [cpc EXCEPT ![c] = "lock"]
    /\ salvage' = [salvage EXCEPT ![c] = IF inboundHandler THEN "waiting" ELSE "none"]
    /\ UNCHANGED <<connVars, ckind, cstan, cgot>>
    /\ UNCHANGED <<outVars, writerVars, readerVars, netVars, tearVars, histVars>>

\* connection.go:425-429: the timer of Reply's select fires
ReplyTimeout(c) ==
    /\ cpc[c] = "wait"
    /\ ckind[c] = "Reply"
    /\ Return(c, "ErrSendTimeout")
    /\ UNCHANGED <<closing, doneCloses, connCloses, respMap, mu, inboundHandler, lifeVars>>
    /\ UNCHANGED <<ckind, cstan, cgot, salvage>>
    /\ UNCHANGED <<outVars, writerVars, readerVars, netVars, tearVars, histVars>>

\* connection.go:377-381: delete the slot under the lock, return
SendDelete(c) ==
    /\ cpc[c] = "lock"
    /\ mu = Free
    /\ respMap' = MapDelete(respMap, requestID([stan |-> cstan[c]]))
    /\ cpc' = [cpc EXCEPT ![c] = "done"]
    /\ wg' = wg - 1
    /\ UNCHANGED <<closing, doneCloses, connCloses, mu, inboundHandler, lifeVars>>
    /\ UNCHANGED <<ckind, cstan, cres, cgot, salvage>>
    /\ UNCHANGED <<outVars, writerVars, readerVars, netVars, tearVars, histVars>>

\* connection.go:364-373: the salvage goroutine's timer fires
salvageTimeout(c) ==
    /\ salvage[c] = "waiting"
    /\ salvage' = [salvage EXCEPT ![c] = "none"]
    /\ UNCHANGED <<connVars, cpc, ckind, cstan, cres, cgot>>
    /\ UNCHANGED <<outVars, writerVars, readerVars, netVars, tearVars, histVars>>

\* --------------------------------------------------------------- writeLoop
\* writeLoop going to the write without registering the slot of a Send
writeLoopRecv_noRegister(c) ==
    /\ wpc = "select"
    /\ cpc[c] = "enqueue"
    /\ cpc' = [cpc EXCEPT ![c] = "wait"]
    /\ wreq' = c
    /\ wpc' = "write"
    /\ UNCHANGED <<connVars, ckind, cstan, cres, cgot, salvage>>
    /\ UNCHANGED <<outVars, readerVars, netVars, tearVars, histVars>>

\* connection.go:495 (Send's 353 / Reply's 421): the rendezvous on requestsCh
writeLoopRecv(c) ==
    /\ wpc = "select"
    /\ cpc[c] = "enqueue"
    /\ cpc' = [cpc EXCEPT ![c] = "wait"]
    /\ wreq' = c
    /\ wpc' = IF ckind[c] = "Send" THEN "register" ELSE "write"
    /\ UNCHANGED <<connVars, ckind, cstan, cres, cgot, salvage>>
    /\ UNCHANGED <<outVars, readerVars, netVars, tearVars, histVars>>

\* connection.go:497-504
writeLoopRegister ==
    /\ wpc = "register"
    /\ mu = Free
    /\ respMap' = MapSet(respMap, cstan[wreq], wreq)
    /\ registered' = registered \cup {wreq}
    /\ wpc' = "write"
    /\ UNCHANGED <<closing, doneCloses, connCloses, wg, mu, inboundHandler, lifeVars>>
    /\ UNCHANGED <<callVars, outVars, wreq, readerVars, netVars, tearVars>>
    /\ UNCHANGED <<lateStart, afterNoise, pendAtClosing, pendAtFan, closedBy>>

\* connection.go:506, 516: the write succeeds
writeLoopWrite ==
    /\ wpc = "write"
    /\ ~connClosed
    /\ wire' = wire \cup {wreq}
    /\ IF ckind[wreq] = "Reply"
       THEN wpc' = "replyNil" /\ UNCHANGED wreq
       ELSE wpc' = "select" /\ wreq' = NoReq
    /\ UNCHANGED <<connVars, callVars, outVars, readerVars, inbox, answered, pushed>>
    /\ UNCHANGED <<tearVars, histVars>>

\* connection.go:506-510, 530: the write fails; the loop ends and calls
\* handleConnectionError
writeLoopWriteFail ==
    /\ wpc = "write"
    /\ wpc' = "hce"
    /\ wreq' = NoReq
    /\ reported' = reported \cup {Err("write")}
    /\ UNCHANGED <<connVars, callVars, handled, readerVars, netVars, tearVars, histVars>>

\* connection.go:516-518: nil on the errCh of a Reply call
writeLoopReplyNil ==
    /\ wpc = "replyNil"
    /\ cpc[wreq] = "wait"
    /\ Return(wreq, "nil")
    /\ wpc' = "select"
    /\ wreq' = NoReq
    /\ UNCHANGED <<closing, doneCloses, connCloses, respMap, mu, inboundHandler, lifeVars>>
    /\ UNCHANGED <<ckind, cstan, cgot, salvage>>
    /\ UNCHANGED <<outVars, readerVars, netVars, tearVars, histVars>>

\* connection.go:524-525
writeLoopDone ==
    /\ wpc = "select"
    /\ doneClosed
    /\ wpc' = "exit"
    /\ UNCHANGED <<connVars, callVars, outVars, wreq, readerVars, netVars, tearVars, histVars>>

\* ----------------------------------------------------------------- the peer
\* the peer answers a request it has received, in any order
PeerRespond(c) ==
    /\ c \in wire
    /\ ckind[c] = "Send"
    /\ \A i \in 1..Len(answered) : answered[i] # c
    /\ ~connClosed
    /\ inbox' = Append(inbox, ResponseTo(c, cstan[c]))
    /\ answered' = Append(answered, c)
    /\ UNCHANGED <<connVars, callVars, outVars, writerVars, readerVars, wire, pushed>>
    /\ UNCHANGED <<tearVars, histVars>>

\* the peer sends a frame that answers nothing (connection.go:541-555 reads it)
PeerPush(f) ==
    /\ pushed < MaxPush
    /\ ~connClosed
    /\ inbox' = Append(inbox, f)
    /\ pushed' = pushed + 1
    /\ UNCHANGED <<connVars, callVars, outVars, writerVars, readerVars, wire, answered>>
    /\ UNCHANGED <<tearVars, histVars>>

\* ---------------------------------------------------------------- readLoop
\* connection.go:541-553: one frame is read
readLoopRead ==
    /\ rpc = "read"
    /\ ~connClosed
    /\ inbox # <<>>
    /\ rmsg' = Head(inbox)
    /\ inbox' = Tail(inbox)
    /\ rpc' = "handoff"
    /\ UNCHANGED <<connVars, callVars, outVars, writerVars, dpc, hr, wire, answered, pushed>>
    /\ UNCHANGED <<tearVars, histVars>>

\* connection.go:542-545, 550-553, 558: the read fails (the peer went away, or
\* the transport was closed); the loop ends and calls handleConnectionError
readLoopFail ==
    /\ rpc = "read"
    /\ rpc' = "hce"
    /\ reported' = reported \cup {Err("read")}
    /\ UNCHANGED <<connVars, callVars, handled, writerVars, rmsg, dpc, hr, netVars>>
    /\ UNCHANGED <<tearVars, histVars>>

\* connection.go:555 and 564-565: the rendezvous on readResponseCh, and the
\* handleResponse goroutine readResponseLoop starts
readLoopHandoff ==
    /\ rpc = "handoff"
    /\ dpc = "select"
    /\ hr' = hr \cup {[msg |-> rmsg, stage |-> "new", slot |-> NoReq]}
    /\ rmsg' = NoMsg
    /\ rpc' = "read"
    /\ UNCHANGED <<connVars, callVars, outVars, writerVars, dpc, netVars>>
    /\ UNCHANGED <<tearVars, histVars>>

\* connection.go:570-571
readResponseLoopDone ==
    /\ dpc = "select"
    /\ doneClosed
    /\ dpc' = "exit"
    /\ UNCHANGED <<connVars, callVars, outVars, writerVars, rpc, rmsg, hr, netVars>>
    /\ UNCHANGED <<tearVars, histVars>>

\* handleResponse taking a slot of respMap without regard to the request id
handleResponse_anySlot(h) ==
    /\ h \in hr
    /\ h.stage = "new"
    /\ mu = Free
    /\ IF DOMAIN respMap # {}
       THEN hr' = (hr \ {h}) \cup
                {[h EXCEPT !.stage = "deliver",
                           !.slot = respMap[CHOOSE k \in DOMAIN respMap : TRUE]]}
       ELSE hr' = hr \ {h}
    /\ UNCHANGED <<connVars, callVars, outVars, writerVars, rpc, rmsg, dpc, netVars>>
    /\ UNCHANGED <<tearVars, histVars>>

\* connection.go:578-615: unpack, classify, look the slot up under the lock
handleResponse(h) ==
    /\ h \in hr
    /\ h.stage = "new"
    /\ (h.msg.ok /\ isResponse(h.msg) /\ ~requestIDFails(h.msg)) => mu = Free
    /\ IF ~h.msg.ok
       THEN /\ reported' = reported \cup {ErrUnpack(h.msg)}
            /\ hr' = hr \ {h}
            /\ UNCHANGED handled
       ELSE IF isResponse(h.msg)
       THEN IF requestIDFails(h.msg)
            THEN /\ reported' = reported \cup {Err("requestID")}
                 /\ hr' = hr \ {h}
                 /\ UNCHANGED handled
            ELSE IF requestID(h.msg) \in DOMAIN respMap
            THEN /\ hr' = (hr \ {h}) \cup
                        {[h EXCEPT !.stage = "deliver", !.slot = respMap[requestID(h.msg)]]}
                 /\ UNCHANGED <<handled, reported>>
            ELSE IF inboundHandler
            THEN /\ handled' = handled \cup {Handled(h.msg, "unmatched", NoReq)}
                 /\ hr' = hr \ {h}
                 /\ UNCHANGED reported
            ELSE /\ reported' = reported \cup {Err("unmatched")}
                 /\ hr' = hr \ {h}
                 /\ UNCHANGED handled
       ELSE /\ handled' = IF inboundHandler
                           THEN handled \cup {Handled(h.msg, "inbound", NoReq)}
                           ELSE handled
            /\ hr' = hr \ {h}
            /\ UNCHANGED reported
    /\ UNCHANGED <<connVars, callVars, writerVars, rpc, rmsg, dpc, netVars>>
    /\ UNCHANGED <<tearVars, histVars>>

\* connection.go:604 with Send's 356: the rendezvous on the slot's replyCh
handleResponseDeliver(h) ==
    /\ h \in hr
    /\ h.stage = "deliver"
    /\ cpc[h.slot] = "wait"
    /\ cres' = [cres EXCEPT ![h.slot] = "reply"]
    /\ cgot' = [cgot EXCEPT ![h.slot] = h.msg]
    /\ cpc' = [cpc EXCEPT ![h.slot] = "lock"]
    /\ hr' = hr \ {h}
    /\ UNCHANGED <<connVars, ckind, cstan, salvage, outVars, writerVars>>
    /\ UNCHANGED <<rpc, rmsg, dpc, netVars, tearVars, histVars>>

\* connection.go:604 with 366-367: the salvage goroutine takes the reply and
\* gives it to InboundMessageHandler
salvageRecv(h) ==
    /\ h \in hr
    /\ h.stage = "deliver"
    /\ salvage[h.slot] = "waiting"
    /\ salvage' = [salvage EXCEPT ![h.slot] = "none"]
    /\ handled' = handled \cup {Handled(h.msg, "salvage", h.slot)}
    /\ hr' = hr \ {h}
    /\ UNCHANGED <<connVars, cpc, ckind, cstan, cres, cgot, reported, writerVars>>
    /\ UNCHANGED <<rpc, rmsg, dpc, netVars, tearVars, histVars>>

\* ---------------------------------------------------------------- teardown
\* the loop p has left its for loop and is calling handleConnectionError
InHce(p) == IF p = Writer THEN wpc = "hce" ELSE rpc = "hce"

\* connection.go:269-280: Close up to the call of close(); Close calls are
\* numbered in the order in which they are entered
Close(k) ==
    /\ tpc[k] = "idle"
    /\ IF k[2] = 1 THEN TRUE ELSE tpc[<<"Close", k[2] - 1>>] # "idle"
    /\ IF closing
       THEN /\ tpc' = [tpc EXCEPT ![k] = "ret"]
            /\ UNCHANGED <<closing, pendAtClosing, closedBy>>
       ELSE /\ closing' = TRUE
            /\ tpc' = [tpc EXCEPT ![k] = "wait"]
            /\ pendAtClosing' = Slots
            /\ closedBy' = k
    /\ UNCHANGED <<doneCloses, connCloses, wg, respMap, mu, inboundHandler, lifeVars>>
    /\ UNCHANGED <<callVars, outVars, writerVars, readerVars, netVars>>
    /\ UNCHANGED <<todo, drpc, drreq, wtpc, lateStart, afterNoise, pendAtFan, registered>>

\* handleConnectionError without the closing guard of lines 206-209
handleConnectionError_noGuard(p) ==
    /\ InHce(p)
    /\ tpc[p] = "idle"
    /\ closing' = TRUE
    /\ tpc' = [tpc EXCEPT ![p] = "lock"]
    /\ pendAtClosing' = Slots
    /\ closedBy' = p
    /\ UNCHANGED <<doneCloses, connCloses, wg, respMap, mu, inboundHandler, lifeVars>>
    /\ UNCHANGED <<callVars, outVars, writerVars, readerVars, netVars>>
    /\ UNCHANGED <<todo, drpc, drreq, wtpc, lateStart, afterNoise, pendAtFan, registered>>

\* connection.go:203-212: the guard of handleConnectionError (err is non-nil
\* at both call sites once the loop has broken on an error)
handleConnectionError(p) ==
    /\ InHce(p)
    /\ tpc[p] = "idle"
    /\ IF closing
       THEN /\ tpc' = [tpc EXCEPT ![p] = "ret"]
            /\ UNCHANGED <<closing, pendAtClosing, closedBy>>
       ELSE /\ closing' = TRUE
            /\ tpc' = [tpc EXCEPT ![p] = "lock"]
            /\ pendAtClosing' = Slots
            /\ closedBy' = p
    /\ UNCHANGED <<doneCloses, connCloses, wg, respMap, mu, inboundHandler, lifeVars>>
    /\ UNCHANGED <<callVars, outVars, writerVars, readerVars, netVars>>
    /\ UNCHANGED <<todo, drpc, drreq, wtpc, lateStart, afterNoise, pendAtFan, registered>>

\* connection.go:217-218: pendingRequestsMu.Lock() and the start of the range
hceLock(p) ==
    /\ tpc[p] = "lock"
    /\ mu = Free
    /\ mu' = p
    /\ todo' = [todo EXCEPT ![p] = DOMAIN respMap]
    /\ tpc' = [tpc EXCEPT ![p] = "fan"]
    /\ pendAtFan' = Slots
    /\ UNCHANGED <<closing, doneCloses, connCloses, wg, respMap, inboundHandler, lifeVars>>
    /\ UNCHANGED <<callVars, outVars, writerVars, readerVars, netVars>>
    /\ UNCHANGED <<drpc, drreq, wtpc, lateStart, afterNoise, pendAtClosing, registered, closedBy>>

\* the range of line 218 passing over a slot without sending on its errCh
hceFan_skip(p, k) ==
    /\ tpc[p] = "fan"
    /\ k \in todo[p]
    /\ todo' = [todo EXCEPT ![p] = @ \ {k}]
    /\ UNCHANGED <<connVars, callVars, outVars, writerVars, readerVars, netVars>>
    /\ UNCHANGED <<tpc, drpc, drreq, wtpc, histVars>>

\* connection.go:219 with Send's 357: the rendezvous on one slot's errCh
hceFan(p, k) ==
    /\ tpc[p] = "fan"
    /\ k \in todo[p]
    /\ cpc[respMap[k]] = "wait"
    /\ TakeErr(respMap[k], "ErrConnectionClosed")
    /\ todo' = [todo EXCEPT ![p] = @ \ {k}]
    /\ UNCHANGED <<closing, doneCloses, connCloses, respMap, mu, inboundHandler, lifeVars>>
    /\ UNCHANGED <<ckind, cstan, cgot, salvage>>
    /\ UNCHANGED <<outVars, writerVars, readerVars, netVars>>
    /\ UNCHANGED <<tpc, drpc, drreq, wtpc, histVars>>

\* connection.go:221-242: unlock, start the two goroutines, enter close()
hceSpawn(p) ==
    /\ tpc[p] = "fan"
    /\ todo[p] = {}
    /\ mu' = Free
    /\ drpc' = [drpc EXCEPT ![p] = "select"]
    /\ wtpc' = [wtpc EXCEPT ![p] = "wait"]
    /\ tpc' = [tpc EXCEPT ![p] = "wait"]
    /\ UNCHANGED <<closing, doneCloses, connCloses, wg, respMap, inboundHandler, lifeVars>>
    /\ UNCHANGED <<callVars, outVars, writerVars, readerVars, netVars>>
    /\ UNCHANGED <<todo, drreq, histVars>>

\* connection.go:227 (Send's 353 / Reply's 421): the draining goroutine takes
\* a request from requestsCh
drainRecv(p, c) ==
    /\ drpc[p] = "select"
    /\ cpc[c] = "enqueue"
    /\ cpc' = [cpc EXCEPT ![c] = "wait"]
    /\ drreq' = [drreq EXCEPT ![p] = c]
    /\ drpc' = [drpc EXCEPT ![p] = "sendErr"]
    /\ UNCHANGED <<connVars, ckind, cstan, cres, cgot, salvage>>
    /\ UNCHANGED <<outVars, writerVars, readerVars, netVars>>
    /\ UNCHANGED <<tpc, todo, wtpc, histVars>>

\* connection.go:228: ... and sends ErrConnectionClosed on its errCh
drainSend(p) ==
    /\ drpc[p] = "sendErr"
    /\ cpc[drreq[p]] = "wait"
    /\ TakeErr(drreq[p], "ErrConnectionClosed")
    /\ drreq' = [drreq EXCEPT ![p] = NoReq]
    /\ drpc' = [drpc EXCEPT ![p] = "select"]
    /\ UNCHANGED <<closing, doneCloses, connCloses, respMap, mu, inboundHandler, lifeVars>>
    /\ UNCHANGED <<ckind, cstan, cgot, salvage>>
    /\ UNCHANGED <<outVars, writerVars, readerVars, netVars>>
    /\ UNCHANGED <<tpc, todo, wtpc, histVars>>

\* connection.go:237: the waiting goroutine's c.wg.Wait() returns
waiterWait(p) ==
    /\ wtpc[p] = "wait"
    /\ wg = 0
    /\ wtpc' = [wtpc EXCEPT ![p] = "signal"]
    /\ UNCHANGED <<connVars, callVars, outVars, writerVars, readerVars, netVars>>
    /\ UNCHANGED <<tpc, todo, drpc, drreq, histVars>>

\* connection.go:238 with 229-230: the rendezvous on the local done channel
waiterSignal(p) ==
    /\ wtpc[p] = "signal"
    /\ drpc[p] = "select"
    /\ wtpc' = [wtpc EXCEPT ![p] = "exit"]
    /\ drpc' = [drpc EXCEPT ![p] = "exit"]
    /\ UNCHANGED <<connVars, callVars, outVars, writerVars, readerVars, netVars>>
    /\ UNCHANGED <<tpc, todo, drreq, histVars>>

\* close() without the c.wg.Wait() of line 253
closeWait_noWait(p) ==
    /\ tpc[p] = "wait"
    /\ tpc' = [tpc EXCEPT ![p] = "closeDone"]
    /\ UNCHANGED <<connVars, callVars, outVars, writerVars, readerVars, netVars>>
    /\ UNCHANGED <<todo, drpc, drreq, wtpc, histVars>>

\* connection.go:253: close()'s c.wg.Wait() returns
closeWait(p) ==
    /\ tpc[p] = "wait"
    /\ wg = 0
    /\ tpc' = [tpc EXCEPT ![p] = "closeDone"]
    /\ UNCHANGED <<connVars, callVars, outVars, writerVars, readerVars, netVars>>
    /\ UNCHANGED <<todo, drpc, drreq, wtpc, histVars>>

\* close() calling c.conn.Close() where line 255 closes c.done
closeDone_connFirst(p) ==
    /\ tpc[p] = "closeDone"
    /\ connCloses' = connCloses + 1
    /\ tpc' = [tpc EXCEPT ![p] = "closeConn"]
    /\ UNCHANGED <<closing, doneCloses, wg, respMap, mu, inboundHandler, lifeVars>>
    /\ UNCHANGED <<callVars, outVars, writerVars, readerVars, netVars>>
    /\ UNCHANGED <<todo, drpc, drreq, wtpc, histVars>>

\* close() without the close(c.done) of line 255
closeDone_skip(p) ==
    /\ tpc[p] = "closeDone"
    /\ tpc' = [tpc EXCEPT ![p] = "closeConn"]
    /\ UNCHANGED <<connVars, callVars, outVars, writerVars, readerVars, netVars>>
    /\ UNCHANGED <<todo, drpc, drreq, wtpc, histVars>>

\* connection.go:255: close(c.done)
closeDone(p) ==
    /\ tpc[p] = "closeDone"
    /\ doneCloses' = doneCloses + 1
    /\ tpc' = [tpc EXCEPT ![p] = "closeConn"]
    /\ UNCHANGED <<closing, connCloses, wg, respMap, mu, inboundHandler, lifeVars>>
    /\ UNCHANGED <<callVars, outVars, writerVars, readerVars, netVars>>
    /\ UNCHANGED <<todo, drpc, drreq, wtpc, histVars>>

\* connection.go:257-264: c.conn.Close(), and the return to the caller
closeConn(p) ==
    /\ tpc[p] = "closeConn"
    /\ connCloses' = connCloses + 1
    /\ tpc' = [tpc EXCEPT ![p] = "ret"]
    /\ UNCHANGED <<closing, doneCloses, wg, respMap, mu, inboundHandler, lifeVars>>
    /\ UNCHANGED <<callVars, outVars, writerVars, readerVars, netVars>>
    /\ UNCHANGED <<todo, drpc, drreq, wtpc, histVars>>

\* ------------------------------------------------------------ specification
\* the application calls Send, Reply or Close
Call ==
    \/ \E c \in Callers, s \in Stans : SendEnter(c, s)
    \/ \E c \in Callers : ReplyEnter(c)
    \/ \E k \in CloseCalls : Close(k)

\* a goroutine, a timer, the peer or the transport takes a step
Step ==
    \/ \E c \in Callers : SendCheck(c)
    \/ \E c \in Callers : ReplyCheck(c)
    \/ \E c \in Callers : SendTimeout(c)
    \/ \E c \in Callers : ReplyTimeout(c)
    \/ \E c \in Callers : SendDelete(c)
    \/ \E c \in Callers : salvageTimeout(c)
    \/ \E c \in Callers : writeLoopRecv(c)
    \/ writeLoopRegister
    \/ writeLoopWrite
    \/ writeLoopWriteFail
    \/ writeLoopReplyNil
    \/ writeLoopDone
    \/ \E c \in Callers : PeerRespond(c)
    \/ readLoopRead
    \/ readLoopFail
    \/ readLoopHandoff
    \/ readResponseLoopDone
    \/ \E h \in hr : handleResponse(h)
    \/ \E h \in hr : handleResponseDeliver(h)
    \/ \E h \in hr : salvageRecv(h)
    \/ \E p \in Loops : handleConnectionError(p)
    \/ \E p \in Loops : hceLock(p)
    \/ \E p \in Loops, k \in Stans : hceFan(p, k)
    \/ \E p \in Loops : hceSpawn(p)
    \/ \E p \in Loops, c \in Callers : drainRecv(p, c)
    \/ \E p \in Loops : drainSend(p)
    \/ \E p \in Loops : waiterWait(p)
    \/ \E p \in Loops : waiterSignal(p)
    \/ \E p \in TProcs : closeWait(p)
    \/ \E p \in TProcs : closeDone(p)
    \/ \E p \in TProcs : closeConn(p)

Next == Call \/ Step

Spec == Init /\ [][Next]_vars

\* the same connection with a peer that also sends frames of its own accord,
\* used by NumInboundCallers calls of Send or Reply
CallInbound ==
    \/ \E c \in 1..NumInboundCallers, s \in Stans : SendEnter(c, s)
    \/ \E c \in 1..NumInboundCallers : ReplyEnter(c)
    \/ \E k \in CloseCalls : Close(k)

NextInbound ==
    \/ CallInbound
    \/ Step
    \/ \E f \in Frames : PeerPush(f)

SpecInbound == Init /\ [][NextInbound]_vars

\* ---------------------------------------------------------------- lifecycle
\* The goroutines of every run() of one Connection, each followed as far as
\* its use of the transport: Spec above follows the loops of one run() in
\* detail, the actions below follow every run() that New, NewFrom and Connect
\* make.
restVars == <<respMap, mu, inboundHandler, callVars, outVars, writerVars, readerVars,
              netVars, tearVars, histVars>>

\* connection.go:188-192, the k-th call
run(k) ==
    /\ runs' = k
    /\ lw' = [lw EXCEPT ![k] = "select"]
    /\ lr' = [lr EXCEPT ![k] = "read"]
    /\ ld' = [ld EXCEPT ![k] = "select"]

\* connection.go:269-280 and 203-211: the closing guard, and the start of close()
lifeTeardown(withDrain) ==
    IF closing
    THEN UNCHANGED <<closing, lclose, ldrain>>
    ELSE /\ closing' = TRUE
         /\ lclose' = "wait"
         /\ ldrain' = withDrain

\* connection.go:144-185
Connect ==
    /\ connects < MaxConnect
    /\ connects' = connects + 1
    /\ \/ /\ conn                     \* 148-151
          /\ run(runs + 1)
          /\ UNCHANGED <<conn, closing, lclose, ldrain>>
       \/ /\ ~conn                    \* 161-163: the dial fails
          /\ UNCHANGED <<conn, runs, lw, lr, ld, closing, lclose, ldrain>>
       \/ /\ ~conn                    \* 165-167, 182-184
          /\ conn' = TRUE
          /\ run(runs + 1)
          /\ UNCHANGED <<closing, lclose, ldrain>>
       \/ /\ ~conn                    \* 165-177: OnConnect fails, c.Close()
          /\ conn' = TRUE
          /\ run(runs + 1)
          /\ lifeTeardown(FALSE)
    /\ UNCHANGED <<doneCloses, connCloses, wg, lmade, lq, lwait, restVars>>

\* connection.go:269-280: a Close call that finds closing unset
lifeClose ==
    /\ ~closing
    /\ lifeTeardown(FALSE)
    /\ UNCHANGED <<doneCloses, connCloses, wg, restVars>>
    /\ UNCHANGED <<conn, connects, runs, lw, lr, ld, lmade, lq, lwait>>

\* connection.go:310-353, 387-421: a Send or Reply call up to its handoff
lifeCall ==
    /\ lmade < NumCallers
    /\ lmade' = lmade + 1
    /\ IF closing
       THEN UNCHANGED <<wg, lq>>
       ELSE wg' = wg + 1 /\ lq' = lq + 1
    /\ UNCHANGED <<closing, doneCloses, connCloses, restVars>>
    /\ UNCHANGED <<conn, connects, runs, lw, lr, ld, lwait, lclose, ldrain>>

\* connection.go:355-381, 423-429: the call's wait resolves and it returns
lifeReturn ==
    /\ lwait > 0
    /\ lwait' = lwait - 1
    /\ wg' = wg - 1
    /\ UNCHANGED <<closing, doneCloses, connCloses, restVars>>
    /\ UNCHANGED <<conn, connects, runs, lw, lr, ld, lmade, lq, lclose, ldrain>>

\* connection.go:495: writeLoop i takes a request
lifeWriteRecv(i) ==
    /\ lw[i] = "select"
    /\ lq > 0
    /\ lq' = lq - 1
    /\ lw' = [lw EXCEPT ![i] = "write"]
    /\ UNCHANGED <<closing, doneCloses, connCloses, wg, restVars>>
    /\ UNCHANGED <<conn, connects, runs, lr, ld, lmade, lwait, lclose, ldrain>>

\* connection.go:506-518: c.conn.Write returns without an error
lifeWrite(i) ==
    /\ lw[i] = "write"
    /\ ~connClosed
    /\ lw' = [lw EXCEPT ![i] = "select"]
    /\ lwait' = lwait + 1
    /\ UNCHANGED <<closing, doneCloses, connCloses, wg, restVars>>
    /\ UNCHANGED <<conn, connects, runs, lr, ld, lmade, lq, lclose, ldrain>>

\* connection.go:506-510, 530: c.conn.Write fails, handleConnectionError
lifeWriteFail(i) ==
    /\ lw[i] = "write"
    /\ lw' = [lw EXCEPT ![i] = "exit"]
    /\ lwait' = lwait + 1
    /\ lifeTeardown(TRUE)
    /\ UNCHANGED <<doneCloses, connCloses, wg, restVars>>
    /\ UNCHANGED <<conn, connects, runs, lr, ld, lmade, lq>>

\* connection.go:524-525
lifeWriteDone(i) ==
    /\ lw[i] = "select"
    /\ doneClosed
    /\ lw' = [lw EXCEPT ![i] = "exit"]
    /\ UNCHANGED <<closing, doneCloses, connCloses, wg, restVars>>
    /\ UNCHANGED <<conn, connects, runs, lr, ld, lmade, lq, lwait, lclose, ldrain>>

\* connection.go:541-553: readLoop i reads a frame from the transport
lifeRead(i) ==
    /\ lr[i] = "read"
    /\ ~connClosed
    /\ lr' = [lr EXCEPT ![i] = "handoff"]
    /\ UNCHANGED <<closing, doneCloses, connCloses, wg, restVars>>
    /\ UNCHANGED <<conn, connects, runs, lw, ld, lmade, lq, lwait, lclose, ldrain>>

\* connection.go:542-553, 558: the read fails, handleConnectionError
lifeReadFail(i) ==
    /\ lr[i] = "read"
    /\ lr' = [lr EXCEPT ![i] = "exit"]
    /\ lifeTeardown(TRUE)
    /\ UNCHANGED <<doneCloses, connCloses, wg, restVars>>
    /\ UNCHANGED <<conn, connects, runs, lw, ld, lmade, lq, lwait>>

\* connection.go:555 with 564-565: readLoop i hands the frame to
\* readResponseLoop j
lifeHandoff(i, j) ==
    /\ lr[i] = "handoff"
    /\ ld[j] = "select"
    /\ lr' = [lr EXCEPT ![i] = "read"]
    /\ UNCHANGED <<closing, doneCloses, connCloses, wg, restVars>>
    /\ UNCHANGED <<conn, connects, runs, lw, ld, lmade, lq, lwait, lclose, ldrain>>

\* connection.go:570-571
lifeDispatchDone(j) ==
    /\ ld[j] = "select"
    /\ doneClosed
    /\ ld' = [ld EXCEPT ![j] = "exit"]
    /\ UNCHANGED <<closing, doneCloses, connCloses, wg, restVars>>
    /\ UNCHANGED <<conn, connects, runs, lw, lr, lmade, lq, lwait, lclose, ldrain>>

\* connection.go:227-228 with 357, 424: the draining goroutine takes a request
\* and its call returns ErrConnectionClosed
lifeDrain ==
    /\ ldrain
    /\ lq > 0
    /\ lq' = lq - 1
    /\ wg' = wg - 1
    /\ UNCHANGED <<closing, doneCloses, connCloses, restVars>>
    /\ UNCHANGED <<conn, connects, runs, lw, lr, ld, lmade, lwait, lclose, ldrain>>

\* connection.go:229-230, 236-239: wg.Wait() returns and the draining
\* goroutine is told to stop
lifeDrainStop ==
    /\ ldrain
    /\ wg = 0
    /\ ldrain' = FALSE
    /\ UNCHANGED <<closing, doneCloses, connCloses, wg, restVars>>
    /\ UNCHANGED <<conn, connects, runs, lw, lr, ld, lmade, lq, lwait, lclose>>

\* connection.go:253-262: close()
lifeCloseStep ==
    /\ \/ /\ lclose = "wait"
          /\ wg = 0
          /\ lclose' = "closeDone"
          /\ UNCHANGED <<doneCloses, connCloses>>
       \/ /\ lclose = "closeDone"
          /\ doneCloses' = doneCloses + 1
          /\ lclose' = "closeConn"
          /\ UNCHANGED connCloses
       \/ /\ lclose = "closeConn"
          /\ connCloses' = IF conn THEN connCloses + 1 ELSE connCloses
          /\ lclose' = "ret"
          /\ UNCHANGED doneCloses
    /\ UNCHANGED <<closing, wg, restVars>>
    /\ UNCHANGED <<conn, connects, runs, lw, lr, ld, lmade, lq, lwait, ldrain>>

NextConnect ==
    \/ Connect
    \/ lifeClose
    \/ lifeCall
    \/ lifeReturn
    \/ \E i \in Runs : lifeWriteRecv(i)
    \/ \E i \in Runs : lifeWrite(i)
    \/ \E i \in Runs : lifeWriteFail(i)
    \/ \E i \in Runs : lifeWriteDone(i)
    \/ \E i \in Runs : lifeRead(i)
    \/ \E i \in Runs : lifeReadFail(i)
    \/ \E i, j \in Runs : lifeHandoff(i, j)
    \/ \E j \in Runs : lifeDispatchDone(j)
    \/ lifeDrain
    \/ lifeDrainStop
    \/ lifeCloseStep

\* a Connection made by New or by NewFrom
InitConnect == New \/ NewFrom

SpecConnect == InitConnect /\ [][NextConnect]_vars

\* ------------------------------------------------------------------ claims
InProgress(c) == cpc[c] \notin {"idle", "done"}
Returned(c) == cpc[c] = "done"
\* the goroutines that have passed the closing guard and are tearing down
TearingDown == {p \in TProcs : tpc[p] \in {"lock", "fan", "wait", "closeDone", "closeConn"}}
\* handleConnectionError has finished its range over respMap
FanOutDone == \E p \in Loops : tpc[p] \in {"wait", "closeDone", "closeConn"} \/ (tpc[p] = "ret" /\ closedBy = p)

\* C1: every Send or Reply call eventually returns.  In the form a finite run
\* refutes: when no goroutine, timer, peer or transport event can take a step
\* (only new calls of Send, Reply or Close could be made) no call is left
\* inside Send or Reply.
C1_EveryCallReturns ==
    (~ENABLED Step) => \A c \in Callers : ~InProgress(c)

\* C2 as stated: whenever a Close call has returned, the done-signal is closed.
C2_AnyCloseReturnedDoneClosed ==
    \A k \in CloseCalls : tpc[k] = "ret" => doneClosed

\* C2 amended: whenever the Close call that set closing has returned, the
\* done-signal is closed (a Close that finds closing set returns at once).
C2_ClosingCloseReturnedDoneClosed ==
    \A k \in CloseCalls : (tpc[k] = "ret" /\ closedBy = k) => doneClosed

C2_Witness ==
    \E k \in CloseCalls : tpc[k] = "ret" /\ closedBy = k /\ \E c \in Callers : Returned(c) /\ ~lateStart[c]

\* C3: under any interleaving of Close calls and handleConnectionError calls at
\* most one of them passes the closing guard, the done-signal is closed at most
\* once and the transport is closed at most once.
C3_OneTeardown ==
    /\ Cardinality(TearingDown) <= 1
    /\ doneCloses <= 1
    /\ connCloses <= 1
    /\ TearingDown \subseteq {closedBy}

\* both loops and every Close call have gone through their guard, and the one
\* teardown has run to its end
C3_Witness ==
    /\ \A p \in TProcs : tpc[p] = "ret"
    /\ doneCloses = 1
    /\ connCloses = 1

\* C4 as stated: when the done-signal is closed and the transport's Close is
\* called the completion barrier is zero.
C4_BarrierZeroAtClose ==
    \A p \in TProcs : tpc[p] \in {"closeDone", "closeConn"} => wg = 0

\* C4 amended: when the done-signal is closed and the transport's Close is
\* called, no call that passed its closing check is still in progress; the
\* barrier counts only calls entered after closing was set that have not yet
\* returned ErrConnectionClosed.
C4_NoAdmittedCallAtClose ==
    \A p \in TProcs : tpc[p] \in {"closeDone", "closeConn"} =>
        /\ \A c \in Callers : InProgress(c) => (cpc[c] = "check" /\ lateStart[c])
        /\ wg = Cardinality({c \in Callers : InProgress(c)})

C4_Witness ==
    \E p \in TProcs :
        /\ tpc[p] = "closeDone"
        /\ pendAtClosing # {}
        /\ \E c \in Callers : cpc[c] = "check"

\* C5: a Send or Reply call entered after closing was set returns
\* ErrConnectionClosed at once: it never reaches the request queue, nothing of
\* it is written, and it neither registers nor deletes a slot.
C5_LateCallRejected ==
    \A c \in Callers : lateStart[c] =>
        /\ cpc[c] \in {"check", "done"}
        /\ Returned(c) => cres[c] = "ErrConnectionClosed"
        /\ c \notin wire
        /\ c \notin Slots
        /\ wreq # c
        /\ \A p \in Loops : drreq[p] # c

\* a late Send has returned while the slot of another Send with the same
\* field 11 is still registered
C5_Witness ==
    \E c \in Callers :
        /\ lateStart[c] /\ Returned(c) /\ ckind[c] = "Send"
        /\ cstan[c] \in DOMAIN respMap
        /\ respMap[cstan[c]] # c

\* C6 as stated: every Send whose slot is in respMap when closing is set (by
\* Close or by handleConnectionError) returns ErrConnectionClosed.
C6_PendingGetClosed ==
    \A c \in pendAtClosing : Returned(c) => cres[c] = "ErrConnectionClosed"

\* C6 amended: every Send whose slot is in respMap when handleConnectionError
\* takes the pending-table lock has received ErrConnectionClosed once the range
\* over respMap is finished, and returns it; after a Close no pending Send
\* receives ErrConnectionClosed: each returns its reply or ErrSendTimeout.
C6_FanOutClosesPending ==
    /\ FanOutDone => \A c \in pendAtFan : cres[c] = "ErrConnectionClosed"
    /\ closedBy \in CloseCalls =>
           \A c \in pendAtClosing : Returned(c) => cres[c] \in {"reply", "ErrSendTimeout"}

C6_Witness ==
    /\ FanOutDone
    /\ \E c \in pendAtFan : Returned(c) /\ cres[c] = "ErrConnectionClosed"

\* C7: every reply Send returns carries the field 11 of the request sent.
C7_ReplyHasRequestCorrelator ==
    \A c \in Callers : cres[c] = "reply" => requestID(cgot[c]) = cstan[c]

\* two Sends with distinct field 11, answered in reverse order, both returned
\* a reply
C7_Witness ==
    /\ answered = <<2, 1>>
    /\ cstan[1] # cstan[2]
    /\ \A c \in {1, 2} : Returned(c) /\ cres[c] = "reply"

\* C8: the peer's answer to a Send that has timed out is not returned by
\* another Send: every reply a Send returns answers that Send's own request.
C8_LateReplyNotLeaked ==
    \A c, d \in Callers :
        (Returned(d) /\ cres[d] = "ErrSendTimeout" /\ cres[c] = "reply")
            => cgot[c].origin # d

\* C9: after a Send has returned no slot registered for it is in respMap.
C9_NoSlotAfterReturn ==
    \A c \in Callers : Returned(c) => c \notin Slots

\* a step of writeLoop
writeLoopStep ==
    \/ \E c \in Callers : writeLoopRecv(c)
    \/ writeLoopRegister
    \/ writeLoopWrite
    \/ writeLoopWriteFail
    \/ writeLoopReplyNil
    \/ writeLoopDone

\* C10: after a call has returned ErrSendTimeout, and while nothing has set
\* closing, the writer loop keeps serving the request queue: whenever a later
\* call waits to hand over its request, writeLoop can take a step.
C10_WriterServesAfterTimeout ==
    \A c, d \in Callers :
        (Returned(c) /\ cres[c] = "ErrSendTimeout" /\ ~closing /\ cpc[d] = "enqueue")
            => ENABLED writeLoopStep

\* C11: a salvage goroutine waits only for a Send that timed out with an
\* InboundMessageHandler set; a reply handleResponse is delivering on the
\* replyCh of such a Send can no longer reach the caller; every reply the
\* salvage goroutine took went to InboundMessageHandler and the caller it was
\* meant for returns ErrSendTimeout without a message; without an
\* InboundMessageHandler no salvage goroutine exists.
C11_SalvageForwardsLateReply ==
    /\ \A c \in Callers :
           salvage[c] = "waiting" =>
               /\ inboundHandler
               /\ ckind[c] = "Send"
               /\ cres[c] = "ErrSendTimeout"
               /\ cpc[c] \in {"lock", "done"}
    /\ \A x \in handled :
           x.at = "salvage" =>
               /\ inboundHandler
               /\ cres[x.slot] = "ErrSendTimeout"
               /\ cgot[x.slot] = NoMsg
               /\ cpc[x.slot] \in {"lock", "done"}
    /\ \A c \in Callers : cres[c] = "ErrSendTimeout" => cgot[c] = NoMsg
    /\ ~inboundHandler =>
           /\ \A c \in Callers : salvage[c] = "none"
           /\ \A x \in handled : x.at # "salvage"

\* a Send returned ErrSendTimeout and the peer's answer to its request went
\* from the salvage goroutine to InboundMessageHandler
C11_Witness ==
    \E x \in handled :
        /\ x.at = "salvage"
        /\ x.msg = ResponseTo(x.slot, cstan[x.slot])
        /\ Returned(x.slot)
        /\ cres[x.slot] = "ErrSendTimeout"

\* C12: a frame that fails to unpack is reported to the error handler with
\* the frame's bytes and does nothing else: the handleResponse step that
\* rejects it leaves closing, the done channel, the transport, respMap, every
\* Send and Reply call, the writer and the teardown as they were; no Send
\* returns such a frame and none is given to InboundMessageHandler.
C12_UnpackErrorDoesNotFail ==
    /\ [](/\ \A e \in reported : e.err = "unpack" => (e.raw \in Frames /\ ~e.raw.ok)
          /\ \A h \in hr : h.stage = "deliver" => h.msg.ok
          /\ \A c \in Callers : cres[c] = "reply" => cgot[c].ok
          /\ \A x \in handled : x.msg.ok)
    /\ [][\A h \in hr :
              (h.stage = "new" /\ ~h.msg.ok /\ h \notin hr') =>
                  /\ ErrUnpack(h.msg) \in reported'
                  /\ h.msg \in Frames
                  /\ UNCHANGED <<connVars, callVars, handled, writerVars, tearVars>>]_vars

\* an unpack error was reported, the connection is open, and a Send entered
\* after the report has returned the peer's answer to its request
C12_Witness ==
    /\ ErrUnpack(BadFrame) \in reported
    /\ ~closing /\ ~doneClosed /\ ~connClosed
    /\ \E c \in Callers :
           /\ afterNoise[c]
           /\ Returned(c)
           /\ cres[c] = "reply"
           /\ cgot[c] = ResponseTo(c, cstan[c])

\* the messages the classification of lines 471-485 takes for something other
\* than a response: an MTI of fewer than four characters, or a third
\* character that is none of 1, 3, 5, 7
NonResponse(m) ==
    IF Len(m.mti) < 4 THEN TRUE ELSE m.mti[3] \notin {1, 3, 5, 7}

\* C13: a message that is not a response (an MTI of fewer than four
\* characters, or a third character outside 1, 3, 5, 7) never reaches a Send:
\* none is on its way to a replyCh and none is returned; InboundMessageHandler
\* gets it from line 612 when a handler is set.  The handleResponse step for
\* such a message leaves respMap and every call as they were, does not wait for
\* the pending-table lock, and gives the message to InboundMessageHandler when
\* one is set and to nobody otherwise.
C13_NonResponseBypassesPending ==
    /\ [](/\ \A h \in hr : h.stage = "deliver" => ~NonResponse(h.msg)
          /\ \A c \in Callers : cres[c] = "reply" => ~NonResponse(cgot[c])
          /\ \A x \in handled :
                 IF NonResponse(x.msg)
                 THEN x.at = "inbound" /\ inboundHandler
                 ELSE x.at \in {"salvage", "unmatched"}
          /\ \A h \in hr :
                 (h.stage = "new" /\ h.msg.ok /\ NonResponse(h.msg))
                     => ENABLED handleResponse(h))
    /\ [][\A h \in hr :
              (h.stage = "new" /\ h.msg.ok /\ NonResponse(h.msg) /\ h \notin hr') =>
                  /\ UNCHANGED <<connVars, callVars, reported, writerVars, tearVars>>
                  /\ handled' = IF inboundHandler
                                 THEN handled \cup {Handled(h.msg, "inbound", NoReq)}
                                 ELSE handled]_vars

\* a request of the peer carrying the field 11 of a registered Send went to
\* InboundMessageHandler, and the Send returned the peer's answer
C13_Witness ==
    /\ Handled(PeerRequest, "inbound", NoReq) \in handled
    /\ \E c \in Callers :
           /\ cstan[c] = PeerRequest.stan
           /\ Returned(c)
           /\ cres[c] = "reply"

\* C14 as stated: the done-signal is closed only after the transport has been
\* closed.
C14_DoneAfterTransport ==
    doneClosed => connClosed

\* C14 amended: the transport is closed only after the done-signal has been
\* closed: close() calls c.conn.Close() with c.done already closed, in Close
\* and in handleConnectionError alike.
C14_TransportAfterDone ==
    /\ connClosed => doneClosed
    /\ \A p \in TProcs : tpc[p] = "closeConn" => doneClosed
    /\ \A p \in TProcs : tpc[p] = "closeDone" => ~connClosed

\* close() of a transport-error teardown has closed c.done and is about to
\* call c.conn.Close()
C14_Witness ==
    \E p \in Loops : tpc[p] = "closeConn" /\ doneClosed /\ ~connClosed

\* the step is the handoff of call c's request on requestsCh (lines 353 and
\* 421), to writeLoop or to the draining goroutine of handleConnectionError
Handoff(c) == cpc[c] = "enqueue" /\ cpc'[c] = "wait"

\* C15 as stated: no Send or Reply call hands its request over while closing
\* is set.
C15_NoHandoffWhenClosing ==
    [][\A c \in Callers : Handoff(c) => ~closing]_vars

\* C15 amended: a request is handed over only by a call that was entered
\* before closing was set, and only before the done channel is closed; such a
\* call may hand its request over after closing was set, to writeLoop or to the
\* draining goroutine, which takes requests only once closing is set.
C15_HandoffOnlyByEarlyCalls ==
    [][\A c \in Callers :
          Handoff(c) =>
              /\ ~lateStart[c]
              /\ ~doneClosed
              /\ (\E p \in Loops : drreq'[p] = c /\ drreq[p] # c) => closing]_vars

\* the draining goroutine holds the request of a call that passed its closing
\* check before handleConnectionError set closing
C15_Witness ==
    \E p \in Loops :
        /\ drpc[p] = "sendErr"
        /\ closing
        /\ closedBy = p
        /\ ~lateStart[drreq[p]]
        /\ cpc[drreq[p]] = "wait"

\* a loop that called handleConnectionError and passed its closing guard has
\* come back from close()
TeardownComplete(p) == tpc[p] = "ret" /\ doneClosed /\ connClosed

\* C16: a teardown started by a loop completes.  In the form a finite run
\* refutes: when no goroutine, timer, peer or transport event can take a step,
\* the loop that passed the closing guard of handleConnectionError has sent
\* ErrConnectionClosed to every slot, closed the done channel and closed the
\* transport.
C16_TeardownCompletes ==
    (~ENABLED Step) =>
        \A p \in Loops : (closedBy = p) => (todo[p] = {} /\ TeardownComplete(p))

\* C17: while a Send waits in its select with its slot registered, respMap
\* maps its request id to that Send's slot.
C17_OwnSlotWhileWaiting ==
    \A c \in registered :
        cpc[c] = "wait" =>
            /\ requestID([stan |-> cstan[c]]) \in DOMAIN respMap
            /\ respMap[requestID([stan |-> cstan[c]])] = c

\* the loops of run() i that are at the transport: writeLoop in c.conn.Write,
\* readLoop in its read of c.conn
Writing == {i \in Runs : lw[i] = "write"}
Reading == {i \in Runs : lr[i] = "read"}

\* C18: never two writeLoops in c.conn.Write at once, never two readLoops
\* reading c.conn at once.
C18_OneWriterOneReader ==
    /\ Cardinality(Writing) <= 1
    /\ Cardinality(Reading) <= 1

\* the goroutine of readLoop has come to its end: it has left its loop (558)
\* and returned from handleConnectionError
readLoopExited == rpc = "hce" /\ tpc[Reader] = "ret"

\* C19: once the done channel and the transport are closed readLoop comes to
\* its end by the read error and is not left blocked on its handoff to
\* readResponseLoop.  In the form a finite run refutes: when both are closed
\* and no goroutine, timer, peer or transport event can take a step, readLoop
\* has left its loop and returned from handleConnectionError.
C19_ReaderExitsAfterClose ==
    (doneClosed /\ connClosed /\ ~ENABLED Step) => readLoopExited

\* C20: handleResponse sends a message on a replyCh only if it found the slot
\* in respMap under the message's request id, and the slot it found belongs to
\* a Send that writeLoop has registered; a Send returns a reply only after its
\* registration; and writeLoop has put a Send's slot into respMap before it
\* writes the Send's frame, so that no frame of an unregistered Send is on the
\* transport and the peer answers registered Sends only.
C20_RegisteredBeforeWritten ==
    /\ \A h \in hr :
           h.stage = "deliver" =>
               /\ h.slot \in registered
               /\ cstan[h.slot] = requestID(h.msg)
    /\ \A c \in Callers : cres[c] = "reply" => c \in registered
    /\ \A c \in wire : ckind[c] = "Send" => c \in registered
    /\ (wpc = "write" /\ ckind[wreq] = "Send") => wreq \in registered
    /\ \A i \in 1..Len(answered) : answered[i] \in registered

\* the frame of a registered Send is on the transport, the peer's answer was
\* found in respMap and the Send has returned it
C20_Witness ==
    \E c \in registered :
        /\ c \in wire
        /\ \E i \in 1..Len(answered) : answered[i] = c
        /\ Returned(c)
        /\ cres[c] = "reply"
        /\ cgot[c].origin = c

====
